---- MODULE Spec2Model ----
(***************************************************************************)
(* PxOsdUtilRefiner (opensubdiv/osdutil/refiner.cpp): the refinement       *)
(* driver, the two extraction calls and the patch-parameter decoder.       *)
(*                                                                         *)
(* One Driver instance is modelled.  Its fields are the variables whose    *)
(* names start with an underscore; `last` records the latest call (which   *)
(* return statement it left through, what it returned, what it wrote to    *)
(* the caller's buffers); calls, lastMode and everFailed are history       *)
(* variables; probe belongs to the decoder's own specification.            *)
(*                                                                         *)
(* Floats are fixed-point integers in units of 1/ONE: every value the      *)
(* decoder meets is a dyadic fraction with at most MaxDepth binary places, *)
(* which a float holds exactly.                                            *)
(***************************************************************************)
EXTENDS Integers, Sequences, FiniteSets, TLC

VARIABLES _adaptive, _mesh, _farMesh, _patchParamTable, _firstVertexOffset,
          _firstPatchOffset, _numRefinedVerts, _numUniformQuads, _numPatches,
          _level, _isRefined,
          last, calls, lastMode, everFailed, probe

driver == <<_adaptive, _mesh, _farMesh, _patchParamTable, _firstVertexOffset,
            _firstPatchOffset, _numRefinedVerts, _numUniformQuads, _numPatches,
            _level, _isRefined>>

vars == <<_adaptive, _mesh, _farMesh, _patchParamTable, _firstVertexOffset,
          _firstPatchOffset, _numRefinedVerts, _numUniformQuads, _numPatches,
          _level, _isRefined, last, calls, lastMode, everFailed, probe>>

-----------------------------------------------------------------------------
(* Bounds *)

\* Initialize calls made on the one Driver
MaxCalls == 2
\* patches in the level-1 patch array of a built hierarchy
MaxQuads == 2
\* sub-domain depth of the entries of a built hierarchy's parameter table
MaxPatchDepth == 1
\* sub-domain depth of the bit fields given to the decoder on its own
MaxDepth == 3

RECURSIVE Pow2(_)
Pow2(n) == IF n = 0 THEN 1 ELSE 2 * Pow2(n - 1)

\* 1.0f in fixed point
ONE == Pow2(MaxDepth + MaxPatchDepth)

-----------------------------------------------------------------------------
(* The hierarchy a FarMeshFactory builds, as far as the Driver reads it *)

\* number of patch arrays of a built hierarchy (none, or levels 1 and up)
PatchArrayCounts == {0, 1}
\* global index of the first level-1 vertex: the coarse vertices precede it
FirstVertexOffsets == {4}
\* number of level-1 vertices
VertexCounts == {9}
\* index of the level-1 array's first patch in the parameter table
PatchOffsets == {0, 1}
Rotations == 0..3

\* _farMesh == NULL
NoFarMesh ==
    [id |-> 0, adaptive |-> FALSE, nArrays |-> 0, vOff |-> 0, nVerts |-> 0,
     pOff |-> 0, nPatches |-> 0, rot |-> 0, depth |-> 0]

\* _mesh == NULL
NoMesh == [id |-> 0, valid |-> FALSE]

\* the hierarchies FarMeshFactory::Create() can hand back
FarMeshes(id, adaptive) ==
    { [id |-> id, adaptive |-> adaptive, nArrays |-> 0, vOff |-> vo,
       nVerts |-> nv, pOff |-> 0, nPatches |-> 0, rot |-> 0, depth |-> 0] :
         vo \in FirstVertexOffsets, nv \in VertexCounts }
    \cup
    { [id |-> id, adaptive |-> adaptive, nArrays |-> na, vOff |-> vo,
       nVerts |-> nv, pOff |-> po, nPatches |-> 0, rot |-> 0, depth |-> 0] :
         na \in PatchArrayCounts \ {0}, vo \in FirstVertexOffsets,
         nv \in VertexCounts, po \in PatchOffsets }
    \cup
    UNION { { [id |-> id, adaptive |-> adaptive, nArrays |-> na, vOff |-> vo,
               nVerts |-> nv, pOff |-> po, nPatches |-> np, rot |-> r,
               depth |-> d] :
                 r \in Rotations, d \in 0..MaxPatchDepth, po \in PatchOffsets,
                 vo \in FirstVertexOffsets, nv \in VertexCounts } :
            <<na, np>> \in (PatchArrayCounts \ {0}) \X (1..MaxQuads) }

\* ftable->GetFirstVertexOffset(level)
GetFirstVertexOffset(fm, level) == fm.vOff

\* ftable->GetNumVertices(level)
GetNumVertices(fm, level) == fm.nVerts

\* parrays.size()
PatchArrayVectorSize(fm) == fm.nArrays

\* parrays[level-1].GetPatchIndex()
GetPatchIndex(fm) == fm.pOff

\* parrays[level-1].GetNumPatches()
GetNumPatches(fm) == fm.nPatches

\* ptables->GetFaceVertices(level)[i]: a global index of a level-1 vertex
FaceVertex(fm, i) == fm.vOff + ((3 * i + fm.rot) % fm.nVerts)

\* ptables->GetPatchParamTable()[k]
PatchParamAt(fm, k) ==
    [faceIndex |-> (fm.rot + k) \div 2,
     bitField  |-> [rotation |-> (fm.rot + k) % 4,
                    depth    |-> fm.depth,
                    U        |-> k % Pow2(fm.depth),
                    V        |-> (k \div 2) % Pow2(fm.depth)]]

\* what a read through a reference or pointer that is out of range can yield
GarbageArrays ==
    { [id |-> 0, adaptive |-> FALSE, nArrays |-> 0, vOff |-> 0, nVerts |-> 1,
       pOff |-> po, nPatches |-> 0, rot |-> r, depth |-> 0] :
         po \in PatchOffsets, r \in {1, 2} }

GarbageIndices == {0, 64}

\* bf.GetParamFraction(): 1 / 2^depth
GetParamFraction(bf) == ONE \div Pow2(bf.depth)

-----------------------------------------------------------------------------
(* The decoder *)

\* u * v of two fixed-point values
Mul(a, b) == (a * b) \div ONE

\* _InverseNormalize: <<u, v>> after the two assignments
_InverseNormalize(bf, p) ==
    LET frac == GetParamFraction(bf)
        pu   == bf.U * frac
        pv   == bf.V * frac
    IN  <<Mul(p[1], frac) + pu, Mul(p[2], frac) + pv>>

\* the decoder with the cases of codes 1 and 3 exchanged
_InverseRotateSwapped(bf, p) ==
    CASE bf.rotation = 0 -> p
      [] bf.rotation = 1 -> <<p[2], ONE - p[1]>>
      [] bf.rotation = 2 -> <<ONE - p[1], ONE - p[2]>>
      [] bf.rotation = 3 -> <<ONE - p[2], p[1]>>

\* _InverseRotate: <<u, v>> after the switch
_InverseRotate(bf, p) ==
    CASE bf.rotation = 0 -> p
      [] bf.rotation = 1 -> <<ONE - p[2], p[1]>>
      [] bf.rotation = 2 -> <<ONE - p[1], ONE - p[2]>>
      [] bf.rotation = 3 -> <<p[2], ONE - p[1]>>

\* FarPatchParam::BitField::Normalize: face space to patch space
Normalize(bf, p) ==
    LET frac == GetParamFraction(bf)
    IN  <<((p[1] - bf.U * frac) * ONE) \div frac,
          ((p[2] - bf.V * frac) * ONE) \div frac>>

\* FarPatchParam::BitField::Rotate
Rotate(bf, p) ==
    CASE bf.rotation = 0 -> p
      [] bf.rotation = 1 -> <<p[2], ONE - p[1]>>
      [] bf.rotation = 2 -> <<ONE - p[1], ONE - p[2]>>
      [] bf.rotation = 3 -> <<ONE - p[2], p[1]>>

-----------------------------------------------------------------------------
(* The Driver *)

\* the caller's output vectors as they are when the call is made
PriorBuffers == {<<>>, <<-1>>}

\* the record of one call: the return statement it left through (its source
\* line), the value returned, *errorMessage, the caller's vectors before and
\* after, whether _farMesh was dereferenced, whether a read was out of range
Call(op, exit, ret, err, adaptive, prior, quads, uvs, ids, deref, oob) ==
    [op |-> op, exit |-> exit, ret |-> ret, err |-> err, adaptive |-> adaptive,
     prior |-> prior, quads |-> quads, uvs |-> uvs, ids |-> ids,
     deref |-> deref, oob |-> oob, crashed |-> FALSE]

\* the call faulted on an invalid read: the process is gone
Crash(op, prior) ==
    [op |-> op, exit |-> 0, ret |-> FALSE, err |-> "", adaptive |-> FALSE,
     prior |-> prior, quads |-> prior, uvs |-> prior, ids |-> prior,
     deref |-> TRUE, oob |-> TRUE, crashed |-> TRUE]

NoCall == Call("none", 0, FALSE, "", FALSE, <<>>, <<>>, <<>>, <<>>, FALSE, FALSE)

NoProbe == [stage |-> "off", bf |-> [rotation |-> 0, depth |-> 0, U |-> 0, V |-> 0],
            x |-> 0, y |-> 0, u |-> 0, v |-> 0]

\* PxOsdUtilRefiner::PxOsdUtilRefiner(); _firstPatchOffset has no initializer
Constructed ==
    /\ _adaptive = FALSE
    /\ _mesh = NoMesh
    /\ _farMesh = NoFarMesh
    /\ _patchParamTable = 0
    /\ _firstVertexOffset = 0
    /\ _firstPatchOffset \in PatchOffsets
    /\ _numRefinedVerts = 0
    /\ _numUniformQuads = 0
    /\ _numPatches = 0
    /\ _level = 1
    /\ _isRefined = FALSE
    /\ last = NoCall
    /\ calls = 0
    /\ lastMode = "none"
    /\ everFailed = FALSE

Init == Constructed /\ probe = NoProbe

\* if (_level > (int)parrays.size())
LevelInvalid(fm) == _level > PatchArrayVectorSize(fm)

\* the caching statements moved ahead of the level check
CachesBeforeLevelCheck(exit) == exit \in {141, 166}

\* the offsets and counts are cached only past the level check
CachesLevelValues(exit) == exit = 166

\* the flag set ahead of the level check
SetsRefinedBeforeLevelCheck(exit) == exit \in {141, 166}

\* _isRefined = true is the last statement before return true
SetsRefined(exit) == exit = 166

\* the return statement Initialize leaves through
InitializeExit(topoValid, meshValid, fm) ==
    IF ~topoValid THEN 69
    ELSE IF ~meshValid THEN 82
    ELSE IF LevelInvalid(fm) THEN 141
    ELSE 166

Initialize(topoValid, meshValid, adaptive, fm) ==
    LET exit == InitializeExit(topoValid, meshValid, fm)
    IN  /\ ~last.crashed
        /\ calls < MaxCalls
        /\ calls' = calls + 1
        /\ _mesh' = IF exit = 69 THEN _mesh
                    ELSE [id |-> calls + 1, valid |-> meshValid]
        /\ _farMesh' = IF exit \in {69, 82} THEN _farMesh ELSE fm
        /\ IF CachesLevelValues(exit)
             THEN /\ _patchParamTable' = fm.id
                  /\ _firstVertexOffset' = GetFirstVertexOffset(fm, _level)
                  /\ _firstPatchOffset' = GetPatchIndex(fm)
                  /\ _numRefinedVerts' = GetNumVertices(fm, _level)
                  /\ IF adaptive
                       THEN /\ _numPatches' = GetNumPatches(fm)
                            /\ UNCHANGED _numUniformQuads
                       ELSE /\ _numUniformQuads' = GetNumPatches(fm)
                            /\ UNCHANGED _numPatches
             ELSE UNCHANGED <<_patchParamTable, _firstVertexOffset,
                              _firstPatchOffset, _numRefinedVerts,
                              _numUniformQuads, _numPatches>>
        /\ _isRefined' = IF SetsRefined(exit) THEN TRUE ELSE _isRefined
        /\ UNCHANGED <<_adaptive, _level, probe>>
        /\ last' = Call("Initialize", exit, exit = 166,
                        IF exit = 69 THEN "Topology invalid" ELSE "",
                        adaptive, <<>>, <<>>, <<>>, <<>>, exit \in {141, 166}, FALSE)
        /\ lastMode' = IF exit = 166
                         THEN (IF adaptive THEN "adaptive" ELSE "uniform")
                         ELSE lastMode
        /\ everFailed' = (everFailed \/ exit # 166)

\* a guard on the mesh pointer in place of the flag
NotRefinedByMesh == _mesh.id = 0

\* if (!_isRefined), GetRefinedQuads
QuadsNotRefined == ~_isRefined

\* if (!_isRefined), GetRefinedPtexUvs
PtexUvsNotRefined == ~_isRefined

\* the guard without its count test
NoQuadsUnchecked == FALSE

\* if (!quads || (_numUniformQuads == 0)), the caller's quads never NULL
NoQuads == _numUniformQuads = 0

\* whether quadIndices[0 .. n-1] lies in the face vertices of the level's
\* quads: the hierarchy is uniform, has the level, and has that many quads
FaceVertexInRange(fm, level, n) ==
    fm.id # 0 /\ ~fm.adaptive /\ level <= fm.nArrays /\ n <= 4 * fm.nPatches

\* what quadIndices[0 .. n-1] can read: the level's face vertices when in
\* range, anything otherwise
FaceVertexReads(fm, level, n) ==
    IF FaceVertexInRange(fm, level, n)
      THEN { [i \in 1..n |-> FaceVertex(fm, i - 1)] }
      ELSE { [i \in 1..n |-> g] : g \in GarbageIndices }

\* (*quads)[i] = quadIndices[i] - _firstVertexOffset
QuadsLocal(read) == [i \in 1..Len(read) |-> read[i] - _firstVertexOffset]

GetRefinedQuads(prior) ==
    /\ ~last.crashed
    /\ UNCHANGED <<driver, calls, lastMode, everFailed, probe>>
    /\ IF QuadsNotRefined
         THEN last' = Call("GetRefinedQuads", 178, FALSE,
                           "GetQuads: Mesh has not been refined.", FALSE,
                           prior, prior, <<>>, <<>>, FALSE, FALSE)
       ELSE IF _adaptive
         THEN last' = Call("GetRefinedQuads", 185, FALSE,
                           "GetQuads: only supports uniform subdivision.", FALSE,
                           prior, prior, <<>>, <<>>, FALSE, FALSE)
       ELSE IF NoQuads
         THEN last' = Call("GetRefinedQuads", 189, FALSE, "", FALSE,
                           prior, prior, <<>>, <<>>, FALSE, FALSE)
       ELSE LET n == _numUniformQuads * 4
                ok == FaceVertexInRange(_farMesh, _level, n)
            IN  \/ \E read \in FaceVertexReads(_farMesh, _level, n) :
                     last' = Call("GetRefinedQuads", 201, TRUE, "", FALSE,
                                  prior, QuadsLocal(read), <<>>, <<>>, TRUE, ~ok)
                \/ /\ ~ok
                   /\ last' = Crash("GetRefinedQuads", prior)

\* the loop of GetRefinedPtexUvs over the level's n parameter entries, parray
\* being the patch array the reference is bound to
PtexIds(fm, parray, n) ==
    [i \in 1..n |-> PatchParamAt(fm, GetPatchIndex(parray) + (i - 1)).faceIndex]

PtexUvs(fm, parray, n) ==
    [j \in 1..(4 * n) |->
        LET bf == PatchParamAt(fm, GetPatchIndex(parray) + ((j - 1) \div 4)).bitField
            c0 == _InverseNormalize(bf, _InverseRotate(bf, <<0, 0>>))
            c1 == _InverseNormalize(bf, _InverseRotate(bf, <<ONE, ONE>>))
        IN  CASE (j - 1) % 4 = 0 -> c0[1]
              [] (j - 1) % 4 = 1 -> c0[2]
              [] (j - 1) % 4 = 2 -> c1[1]
              [] (j - 1) % 4 = 3 -> c1[2]]

GetRefinedPtexUvs(prior) ==
    /\ ~last.crashed
    /\ UNCHANGED <<driver, calls, lastMode, everFailed, probe>>
    /\ IF PtexUvsNotRefined
         THEN last' = Call("GetRefinedPtexUvs", 237, FALSE,
                           "GetRefinedPtexUvs: Mesh has not been refined.", FALSE,
                           prior, <<>>, prior, prior, FALSE, FALSE)
       ELSE IF _adaptive
         THEN last' = Call("GetRefinedPtexUvs", 244, FALSE,
                           "GetRefinedPtexUvs: only supports uniform subdivision.",
                           FALSE, prior, <<>>, prior, prior, FALSE, FALSE)
       ELSE LET n   == _numUniformQuads
                ok  == _farMesh.id # 0 /\ ~LevelInvalid(_farMesh)
                err == IF _farMesh.id # 0 /\ LevelInvalid(_farMesh)
                         THEN "Invalid size of patch array" ELSE ""
            IN  IF ok
                  THEN last' = Call("GetRefinedPtexUvs", 289, TRUE, err, FALSE, prior,
                                    <<>>, PtexUvs(_farMesh, _farMesh, n),
                                    PtexIds(_farMesh, _farMesh, n), TRUE, FALSE)
                ELSE IF n = 0 /\ _farMesh.id # 0
                  \* the reference is bound out of range and never read
                  THEN last' = Call("GetRefinedPtexUvs", 289, TRUE, err, FALSE, prior,
                                    <<>>, <<>>, <<>>, TRUE, TRUE)
                ELSE \/ \E g \in GarbageArrays :
                          last' = Call("GetRefinedPtexUvs", 289, TRUE, err, FALSE,
                                       prior, <<>>, PtexUvs(g, g, n),
                                       PtexIds(g, g, n), TRUE, TRUE)
                     \/ last' = Crash("GetRefinedPtexUvs", prior)

Next ==
    \/ \E topoValid \in BOOLEAN, meshValid \in BOOLEAN, adaptive \in BOOLEAN :
         \E fm \in FarMeshes(calls + 1, adaptive) :
            Initialize(topoValid, meshValid, adaptive, fm)
    \/ \E prior \in PriorBuffers : GetRefinedQuads(prior)
    \/ \E prior \in PriorBuffers : GetRefinedPtexUvs(prior)

Spec == Init /\ [][Next]_vars

-----------------------------------------------------------------------------
(* The decoder on its own: a face-space point is encoded by the forward     *)
(* operations of the bit field, then decoded as GetRefinedPtexUvs decodes   *)

BitFields ==
    UNION { { [rotation |-> r, depth |-> d, U |-> su, V |-> sv] :
                r \in Rotations, su \in 0..(Pow2(d) - 1), sv \in 0..(Pow2(d) - 1) } :
            d \in 0..MaxDepth }

\* the corners of rectangles on the quarter grid of the face's unit square
GridPoints == { (k * ONE) \div 4 : k \in 0..4 }

DecodeInit ==
    /\ Constructed
    /\ \E bf \in BitFields, x \in GridPoints, y \in GridPoints :
         probe = [stage |-> "input", bf |-> bf, x |-> x, y |-> y, u |-> x, v |-> y]

Encode ==
    /\ probe.stage = "input"
    /\ LET e == Rotate(probe.bf, Normalize(probe.bf, <<probe.u, probe.v>>))
       IN  probe' = [probe EXCEPT !.stage = "encoded", !.u = e[1], !.v = e[2]]
    /\ UNCHANGED <<driver, last, calls, lastMode, everFailed>>

Decode ==
    /\ probe.stage = "encoded"
    /\ LET p == _InverseNormalize(probe.bf, _InverseRotate(probe.bf, <<probe.u, probe.v>>))
       IN  probe' = [probe EXCEPT !.stage = "decoded", !.u = p[1], !.v = p[2]]
    /\ UNCHANGED <<driver, last, calls, lastMode, everFailed>>

DecodeNext == Encode \/ Decode

SpecDecode == DecodeInit /\ [][DecodeNext]_vars

-----------------------------------------------------------------------------
(* Properties *)

Extraction == {"GetRefinedQuads", "GetRefinedPtexUvs"}

\* the caller's vectors are as they were before the latest call
Untouched ==
    IF last.op = "GetRefinedQuads"
      THEN last.quads = last.prior
      ELSE last.uvs = last.prior /\ last.ids = last.prior

NotRefinedMessage ==
    IF last.op = "GetRefinedQuads"
      THEN "GetQuads: Mesh has not been refined."
      ELSE "GetRefinedPtexUvs: Mesh has not been refined."

AdaptiveMessage ==
    IF last.op = "GetRefinedQuads"
      THEN "GetQuads: only supports uniform subdivision."
      ELSE "GetRefinedPtexUvs: only supports uniform subdivision."

\* Uninitialized, Failed or Ready
DriverState ==
    IF _isRefined THEN "Ready"
    ELSE IF everFailed THEN "Failed"
    ELSE "Uninitialized"

\* the rectangle of a bit field, from the inverse-rotation table and the
\* inverse normalization written out for the corners (0,0) and (1,1)
ExpectedRectangle(bf) ==
    LET f  == ONE \div Pow2(bf.depth)
        lo == <<bf.U * f, bf.V * f>>
        hi == <<(bf.U + 1) * f, (bf.V + 1) * f>>
    IN  CASE bf.rotation = 0 -> <<lo[1], lo[2], hi[1], hi[2]>>
          [] bf.rotation = 1 -> <<hi[1], lo[2], lo[1], hi[2]>>
          [] bf.rotation = 2 -> <<hi[1], hi[2], lo[1], lo[2]>>
          [] bf.rotation = 3 -> <<lo[1], hi[2], hi[1], lo[2]>>

\* C1: once an Initialize with adaptive = true has succeeded (and no uniform
\* one after it), every GetRefinedQuads and GetRefinedPtexUvs call fails with
\* the "only supports uniform subdivision" message and leaves the caller's
\* vectors untouched.
C1_AdaptiveUnsupported ==
    (lastMode = "adaptive" /\ last.op \in Extraction) =>
        /\ ~last.crashed
        /\ last.ret = FALSE
        /\ last.err = AdaptiveMessage
        /\ Untouched

\* C2: while no Initialize has succeeded, every GetRefinedQuads and
\* GetRefinedPtexUvs call returns false with the "has not been refined"
\* message, without dereferencing the hierarchy and without touching the
\* caller's vectors.
C2_StateGating ==
    (lastMode = "none" /\ last.op \in Extraction) =>
        /\ ~last.crashed
        /\ last.ret = FALSE
        /\ last.err = NotRefinedMessage
        /\ ~last.deref
        /\ ~last.oob
        /\ Untouched

\* an extraction on a Driver whose only Initialize failed its level check,
\* so that it holds a hierarchy without being refined
C2_Witness ==
    /\ lastMode = "none"
    /\ everFailed
    /\ _farMesh.id # 0
    /\ last.op = "GetRefinedPtexUvs"
    /\ last.prior # <<>>

C4_RoundTrip ==
    probe.stage = "decoded" => (probe.u = probe.x /\ probe.v = probe.y)

\* a decoded point inside the face, under rotation code 3 at depth 3 with a
\* sub-domain away from the origin
C4_Witness ==
    /\ probe.stage = "decoded"
    /\ probe.bf.rotation = 3
    /\ probe.bf.depth = 3
    /\ probe.bf.U = 5
    /\ probe.bf.V = 2
    /\ probe.x = ONE \div 4
    /\ probe.y = ONE \div 2

\* C5: whenever GetRefinedQuads succeeds on a Driver whose latest successful
\* Initialize was uniform, it returns 4 * quadCount entries, entry i being
\* the level's i-th face vertex minus _firstVertexOffset, each within
\* [0, _numRefinedVerts).
C5_OffsetNormalization ==
    (last.op = "GetRefinedQuads" /\ last.ret /\ lastMode = "uniform") =>
        /\ Len(last.quads) = 4 * _numUniformQuads
        /\ \A i \in 1..Len(last.quads) :
              /\ last.quads[i] = FaceVertex(_farMesh, i - 1) - _firstVertexOffset
              /\ 0 <= last.quads[i]
              /\ last.quads[i] < _numRefinedVerts

\* C5 restricted to a Driver that holds a hierarchy with the level's array
C5_WhenLevelPresent ==
    (last.op = "GetRefinedQuads" /\ last.ret /\ lastMode = "uniform"
       /\ ~LevelInvalid(_farMesh)) =>
        /\ _numUniformQuads > 0
        /\ Len(last.quads) = 4 * _numUniformQuads
        /\ \A i \in 1..Len(last.quads) :
              /\ last.quads[i] = FaceVertex(_farMesh, i - 1) - _firstVertexOffset
              /\ 0 <= last.quads[i]
              /\ last.quads[i] < _numRefinedVerts

\* C6: whenever GetRefinedPtexUvs succeeds on a Driver whose latest
\* successful Initialize was uniform, it returns quadCount face ids and
\* quadCount rectangles, the i-th being the faceIndex and the decoded
\* rectangle of the parameter entry at (the level's patch offset + i).
C6_PtexUvsResult ==
    (last.op = "GetRefinedPtexUvs" /\ last.ret /\ lastMode = "uniform") =>
        /\ Len(last.ids) = _numUniformQuads
        /\ Len(last.uvs) = 4 * _numUniformQuads
        /\ \A i \in 1..Len(last.ids) :
              LET pp == PatchParamAt(_farMesh, GetPatchIndex(_farMesh) + (i - 1))
              IN  /\ last.ids[i] = pp.faceIndex
                  /\ <<last.uvs[4 * i - 3], last.uvs[4 * i - 2],
                       last.uvs[4 * i - 1], last.uvs[4 * i]>>
                       = ExpectedRectangle(pp.bitField)

\* C6 restricted to a Driver that holds a hierarchy with the level's array
C6_WhenLevelPresent ==
    (last.op = "GetRefinedPtexUvs" /\ last.ret /\ lastMode = "uniform"
       /\ ~LevelInvalid(_farMesh)) =>
        /\ Len(last.ids) = _numUniformQuads
        /\ Len(last.uvs) = 4 * _numUniformQuads
        /\ \A i \in 1..Len(last.ids) :
              LET pp == PatchParamAt(_farMesh, GetPatchIndex(_farMesh) + (i - 1))
              IN  /\ last.ids[i] = pp.faceIndex
                  /\ <<last.uvs[4 * i - 3], last.uvs[4 * i - 2],
                       last.uvs[4 * i - 1], last.uvs[4 * i]>>
                       = ExpectedRectangle(pp.bitField)
                  /\ (pp.bitField = [rotation |-> 0, depth |-> 0, U |-> 0, V |-> 0]
                        => last.uvs[4 * i - 3] = 0 /\ last.uvs[4 * i - 2] = 0
                           /\ last.uvs[4 * i - 1] = ONE /\ last.uvs[4 * i] = ONE)
                  /\ (pp.bitField = [rotation |-> 0, depth |-> 1, U |-> 1, V |-> 0]
                        => last.uvs[4 * i - 3] = ONE \div 2 /\ last.uvs[4 * i - 2] = 0
                           /\ last.uvs[4 * i - 1] = ONE
                           /\ last.uvs[4 * i] = ONE \div 2)

\* C7 as stated: on a Driver whose latest successful Initialize was uniform
\* and found no quads, GetRefinedPtexUvs fails and leaves the caller's
\* vectors untouched.
C7_PtexUvsFailsWithoutQuads ==
    (last.op = "GetRefinedPtexUvs" /\ lastMode = "uniform" /\ _numUniformQuads = 0) =>
        /\ last.ret = FALSE
        /\ Untouched

\* C7, amended: on such a Driver GetRefinedQuads returns false, writing no
\* message and leaving the caller's vector untouched, while GetRefinedPtexUvs
\* returns true with both of the caller's vectors resized to length 0.
C7_NoQuadsOutcomes ==
    (lastMode = "uniform" /\ _numUniformQuads = 0) =>
        /\ (last.op = "GetRefinedQuads" =>
              /\ ~last.crashed
              /\ last.ret = FALSE
              /\ last.err = ""
              /\ last.quads = last.prior)
        /\ (last.op = "GetRefinedPtexUvs" =>
              /\ ~last.crashed
              /\ last.ret = TRUE
              /\ last.uvs = <<>>
              /\ last.ids = <<>>)

\* GetRefinedPtexUvs has emptied vectors that held something, on a uniform
\* Driver without quads
C7_Witness ==
    /\ lastMode = "uniform"
    /\ _numUniformQuads = 0
    /\ last.op = "GetRefinedPtexUvs"
    /\ last.ret
    /\ last.prior # <<>>
    /\ last.uvs = <<>>

C9_CountsExclusive ==
    /\ (_numUniformQuads = 0 \/ _numPatches = 0)
    /\ (last.op = "Initialize" /\ last.ret =>
          IF last.adaptive THEN _numUniformQuads = 0 ELSE _numPatches = 0)

\* C10: whenever _isRefined is true, _level is at most the number of patch
\* arrays of the hierarchy held, and GetRefinedPtexUvs never binds
\* parrays[_level-1] out of range.
C10_LevelInRange ==
    /\ (_isRefined => _level <= PatchArrayVectorSize(_farMesh))
    /\ (last.op = "GetRefinedPtexUvs" => ~last.oob)

====
